---------------------------- MODULE Spec2Model ----------------------------
(***************************************************************************)
(* A model of the SNA exploratory-analysis and preprocessing pipeline:     *)
(*   src/src/eda.py            extract_interactions and the RQ analyzers   *)
(*   src/src/preprocessing.py  filter_language, filter_noise, remove_bots  *)
(*                                                                         *)
(* A text is a sequence of code points.  A corpus (a pandas DataFrame) is  *)
(* a record [cols, rows]: cols is the set of column names,   *)
(* rows the sequence of row records, each with the index label idx and one *)
(* field per column.  Corpus objects live in heap, a sequence indexed by   *)
(* object identity, so that a mutation in place and a fresh copy differ.   *)
(***************************************************************************)
EXTENDS Integers, Sequences, FiniteSets, TLC

VARIABLES
    text,        \* the argument of extract_interactions: [isStr, chars]
    rts,         \* its first result, the retweet targets
    mentions,    \* its second result, the mention targets
    heap,        \* the corpus objects that exist, by object identity
    files,       \* the output directory: path -> rows written by to_csv
    lang_model,  \* the module global lang_model: "None" or "model"
    model_file,  \* the file at LANG_MODEL_PATH: "absent", "partial", "complete"
    downloads,   \* number of urlretrieve calls made so far
    loads,       \* number of fasttext.load_model calls made so far
    last         \* the last call: its operation, arguments and outcome

vars == <<text, rts, mentions, heap, files, lang_model, model_file,
          downloads, loads, last>>

(***************************************************************************)
(* Bounds of the model.                                                    *)
(***************************************************************************)
MaxTextLen == 8
MaxBotRows == 5
MaxNoiseRows == 3
MaxSemRows == 4
MaxTopoRows == 2
MaxTail == 21
MaxObjs == 3
MaxPipeRows == 3
MaxAttempts == 2

(***************************************************************************)
(* Characters.  A character is its Unicode code point, as Python's ord      *)
(* gives it.  The tables are those of the Unicode database 14.0.0 that the  *)
(* interpreter carries.                                                     *)
(***************************************************************************)

\* the printable ASCII characters, code points 32 to 126 in order; the
\* backquote (96) cannot be written in a literal here and is left empty
AsciiPrintable ==
    <<" ", "!", "\"", "#", "$", "%", "&", "'", "(", ")", "*", "+", ",", "-",
      ".", "/", "0", "1", "2", "3", "4", "5", "6", "7", "8", "9", ":", ";",
      "<", "=", ">", "?", "@", "A", "B", "C", "D", "E", "F", "G", "H", "I",
      "J", "K", "L", "M", "N", "O", "P", "Q", "R", "S", "T", "U", "V", "W",
      "X", "Y", "Z", "[", "\\", "]", "^", "_", "", "a", "b", "c", "d", "e",
      "f", "g", "h", "i", "j", "k", "l", "m", "n", "o", "p", "q", "r", "s",
      "t", "u", "v", "w", "x", "y", "z", "{", "|", "}", "~">>

\* ord(c) for the characters a literal of the source is written with
Ord(c) ==
    IF c = "\t" THEN 9
    ELSE IF c = "\n" THEN 10
    ELSE IF c = "\r" THEN 13
    ELSE 31 + (CHOOSE k \in 1..Len(AsciiPrintable) : AsciiPrintable[k] = c)

\* a str literal, written character by character, as its code points
Str(s) == [k \in 1..Len(s) |-> Ord(s[k])]

\* the ASCII code points \w matches: digits, letters and '_'
AsciiWordChars == (48..57) \cup (65..90) \cup {95} \cup (97..122)

\* the code points from 128 on that \w matches in a str pattern
\* (chr(c).isalnum()), as closed intervals in ascending order
WordRanges ==
    <<
       <<170, 170>>, <<178, 179>>, <<181, 181>>, <<185, 186>>,
       <<188, 190>>, <<192, 214>>, <<216, 246>>, <<248, 705>>,
       <<710, 721>>, <<736, 740>>, <<748, 748>>, <<750, 750>>,
       <<880, 884>>, <<886, 887>>, <<890, 893>>, <<895, 895>>,
       <<902, 902>>, <<904, 906>>, <<908, 908>>, <<910, 929>>,
       <<931, 1013>>, <<1015, 1153>>, <<1162, 1327>>, <<1329, 1366>>,
       <<1369, 1369>>, <<1376, 1416>>, <<1488, 1514>>, <<1519, 1522>>,
       <<1568, 1610>>, <<1632, 1641>>, <<1646, 1647>>, <<1649, 1747>>,
       <<1749, 1749>>, <<1765, 1766>>, <<1774, 1788>>, <<1791, 1791>>,
       <<1808, 1808>>, <<1810, 1839>>, <<1869, 1957>>, <<1969, 1969>>,
       <<1984, 2026>>, <<2036, 2037>>, <<2042, 2042>>, <<2048, 2069>>,
       <<2074, 2074>>, <<2084, 2084>>, <<2088, 2088>>, <<2112, 2136>>,
       <<2144, 2154>>, <<2160, 2183>>, <<2185, 2190>>, <<2208, 2249>>,
       <<2308, 2361>>, <<2365, 2365>>, <<2384, 2384>>, <<2392, 2401>>,
       <<2406, 2415>>, <<2417, 2432>>, <<2437, 2444>>, <<2447, 2448>>,
       <<2451, 2472>>, <<2474, 2480>>, <<2482, 2482>>, <<2486, 2489>>,
       <<2493, 2493>>, <<2510, 2510>>, <<2524, 2525>>, <<2527, 2529>>,
       <<2534, 2545>>, <<2548, 2553>>, <<2556, 2556>>, <<2565, 2570>>,
       <<2575, 2576>>, <<2579, 2600>>, <<2602, 2608>>, <<2610, 2611>>,
       <<2613, 2614>>, <<2616, 2617>>, <<2649, 2652>>, <<2654, 2654>>,
       <<2662, 2671>>, <<2674, 2676>>, <<2693, 2701>>, <<2703, 2705>>,
       <<2707, 2728>>, <<2730, 2736>>, <<2738, 2739>>, <<2741, 2745>>,
       <<2749, 2749>>, <<2768, 2768>>, <<2784, 2785>>, <<2790, 2799>>,
       <<2809, 2809>>, <<2821, 2828>>, <<2831, 2832>>, <<2835, 2856>>,
       <<2858, 2864>>, <<2866, 2867>>, <<2869, 2873>>, <<2877, 2877>>,
       <<2908, 2909>>, <<2911, 2913>>, <<2918, 2927>>, <<2929, 2935>>,
       <<2947, 2947>>, <<2949, 2954>>, <<2958, 2960>>, <<2962, 2965>>,
       <<2969, 2970>>, <<2972, 2972>>, <<2974, 2975>>, <<2979, 2980>>,
       <<2984, 2986>>, <<2990, 3001>>, <<3024, 3024>>, <<3046, 3058>>,
       <<3077, 3084>>, <<3086, 3088>>, <<3090, 3112>>, <<3114, 3129>>,
       <<3133, 3133>>, <<3160, 3162>>, <<3165, 3165>>, <<3168, 3169>>,
       <<3174, 3183>>, <<3192, 3198>>, <<3200, 3200>>, <<3205, 3212>>,
       <<3214, 3216>>, <<3218, 3240>>, <<3242, 3251>>, <<3253, 3257>>,
       <<3261, 3261>>, <<3293, 3294>>, <<3296, 3297>>, <<3302, 3311>>,
       <<3313, 3314>>, <<3332, 3340>>, <<3342, 3344>>, <<3346, 3386>>,
       <<3389, 3389>>, <<3406, 3406>>, <<3412, 3414>>, <<3416, 3425>>,
       <<3430, 3448>>, <<3450, 3455>>, <<3461, 3478>>, <<3482, 3505>>,
       <<3507, 3515>>, <<3517, 3517>>, <<3520, 3526>>, <<3558, 3567>>,
       <<3585, 3632>>, <<3634, 3635>>, <<3648, 3654>>, <<3664, 3673>>,
       <<3713, 3714>>, <<3716, 3716>>, <<3718, 3722>>, <<3724, 3747>>,
       <<3749, 3749>>, <<3751, 3760>>, <<3762, 3763>>, <<3773, 3773>>,
       <<3776, 3780>>, <<3782, 3782>>, <<3792, 3801>>, <<3804, 3807>>,
       <<3840, 3840>>, <<3872, 3891>>, <<3904, 3911>>, <<3913, 3948>>,
       <<3976, 3980>>, <<4096, 4138>>, <<4159, 4169>>, <<4176, 4181>>,
       <<4186, 4189>>, <<4193, 4193>>, <<4197, 4198>>, <<4206, 4208>>,
       <<4213, 4225>>, <<4238, 4238>>, <<4240, 4249>>, <<4256, 4293>>,
       <<4295, 4295>>, <<4301, 4301>>, <<4304, 4346>>, <<4348, 4680>>,
       <<4682, 4685>>, <<4688, 4694>>, <<4696, 4696>>, <<4698, 4701>>,
       <<4704, 4744>>, <<4746, 4749>>, <<4752, 4784>>, <<4786, 4789>>,
       <<4792, 4798>>, <<4800, 4800>>, <<4802, 4805>>, <<4808, 4822>>,
       <<4824, 4880>>, <<4882, 4885>>, <<4888, 4954>>, <<4969, 4988>>,
       <<4992, 5007>>, <<5024, 5109>>, <<5112, 5117>>, <<5121, 5740>>,
       <<5743, 5759>>, <<5761, 5786>>, <<5792, 5866>>, <<5870, 5880>>,
       <<5888, 5905>>, <<5919, 5937>>, <<5952, 5969>>, <<5984, 5996>>,
       <<5998, 6000>>, <<6016, 6067>>, <<6103, 6103>>, <<6108, 6108>>,
       <<6112, 6121>>, <<6128, 6137>>, <<6160, 6169>>, <<6176, 6264>>,
       <<6272, 6276>>, <<6279, 6312>>, <<6314, 6314>>, <<6320, 6389>>,
       <<6400, 6430>>, <<6470, 6509>>, <<6512, 6516>>, <<6528, 6571>>,
       <<6576, 6601>>, <<6608, 6618>>, <<6656, 6678>>, <<6688, 6740>>,
       <<6784, 6793>>, <<6800, 6809>>, <<6823, 6823>>, <<6917, 6963>>,
       <<6981, 6988>>, <<6992, 7001>>, <<7043, 7072>>, <<7086, 7141>>,
       <<7168, 7203>>, <<7232, 7241>>, <<7245, 7293>>, <<7296, 7304>>,
       <<7312, 7354>>, <<7357, 7359>>, <<7401, 7404>>, <<7406, 7411>>,
       <<7413, 7414>>, <<7418, 7418>>, <<7424, 7615>>, <<7680, 7957>>,
       <<7960, 7965>>, <<7968, 8005>>, <<8008, 8013>>, <<8016, 8023>>,
       <<8025, 8025>>, <<8027, 8027>>, <<8029, 8029>>, <<8031, 8061>>,
       <<8064, 8116>>, <<8118, 8124>>, <<8126, 8126>>, <<8130, 8132>>,
       <<8134, 8140>>, <<8144, 8147>>, <<8150, 8155>>, <<8160, 8172>>,
       <<8178, 8180>>, <<8182, 8188>>, <<8304, 8305>>, <<8308, 8313>>,
       <<8319, 8329>>, <<8336, 8348>>, <<8450, 8450>>, <<8455, 8455>>,
       <<8458, 8467>>, <<8469, 8469>>, <<8473, 8477>>, <<8484, 8484>>,
       <<8486, 8486>>, <<8488, 8488>>, <<8490, 8493>>, <<8495, 8505>>,
       <<8508, 8511>>, <<8517, 8521>>, <<8526, 8526>>, <<8528, 8585>>,
       <<9312, 9371>>, <<9450, 9471>>, <<10102, 10131>>, <<11264, 11492>>,
       <<11499, 11502>>, <<11506, 11507>>, <<11517, 11517>>, <<11520, 11557>>,
       <<11559, 11559>>, <<11565, 11565>>, <<11568, 11623>>, <<11631, 11631>>,
       <<11648, 11670>>, <<11680, 11686>>, <<11688, 11694>>, <<11696, 11702>>,
       <<11704, 11710>>, <<11712, 11718>>, <<11720, 11726>>, <<11728, 11734>>,
       <<11736, 11742>>, <<11823, 11823>>, <<12293, 12295>>, <<12321, 12329>>,
       <<12337, 12341>>, <<12344, 12348>>, <<12353, 12438>>, <<12445, 12447>>,
       <<12449, 12538>>, <<12540, 12543>>, <<12549, 12591>>, <<12593, 12686>>,
       <<12690, 12693>>, <<12704, 12735>>, <<12784, 12799>>, <<12832, 12841>>,
       <<12872, 12879>>, <<12881, 12895>>, <<12928, 12937>>, <<12977, 12991>>,
       <<13312, 19903>>, <<19968, 42124>>, <<42192, 42237>>, <<42240, 42508>>,
       <<42512, 42539>>, <<42560, 42606>>, <<42623, 42653>>, <<42656, 42735>>,
       <<42775, 42783>>, <<42786, 42888>>, <<42891, 42954>>, <<42960, 42961>>,
       <<42963, 42963>>, <<42965, 42969>>, <<42994, 43009>>, <<43011, 43013>>,
       <<43015, 43018>>, <<43020, 43042>>, <<43056, 43061>>, <<43072, 43123>>,
       <<43138, 43187>>, <<43216, 43225>>, <<43250, 43255>>, <<43259, 43259>>,
       <<43261, 43262>>, <<43264, 43301>>, <<43312, 43334>>, <<43360, 43388>>,
       <<43396, 43442>>, <<43471, 43481>>, <<43488, 43492>>, <<43494, 43518>>,
       <<43520, 43560>>, <<43584, 43586>>, <<43588, 43595>>, <<43600, 43609>>,
       <<43616, 43638>>, <<43642, 43642>>, <<43646, 43695>>, <<43697, 43697>>,
       <<43701, 43702>>, <<43705, 43709>>, <<43712, 43712>>, <<43714, 43714>>,
       <<43739, 43741>>, <<43744, 43754>>, <<43762, 43764>>, <<43777, 43782>>,
       <<43785, 43790>>, <<43793, 43798>>, <<43808, 43814>>, <<43816, 43822>>,
       <<43824, 43866>>, <<43868, 43881>>, <<43888, 44002>>, <<44016, 44025>>,
       <<44032, 55203>>, <<55216, 55238>>, <<55243, 55291>>, <<63744, 64109>>,
       <<64112, 64217>>, <<64256, 64262>>, <<64275, 64279>>, <<64285, 64285>>,
       <<64287, 64296>>, <<64298, 64310>>, <<64312, 64316>>, <<64318, 64318>>,
       <<64320, 64321>>, <<64323, 64324>>, <<64326, 64433>>, <<64467, 64829>>,
       <<64848, 64911>>, <<64914, 64967>>, <<65008, 65019>>, <<65136, 65140>>,
       <<65142, 65276>>, <<65296, 65305>>, <<65313, 65338>>, <<65345, 65370>>,
       <<65382, 65470>>, <<65474, 65479>>, <<65482, 65487>>, <<65490, 65495>>,
       <<65498, 65500>>, <<65536, 65547>>, <<65549, 65574>>, <<65576, 65594>>,
       <<65596, 65597>>, <<65599, 65613>>, <<65616, 65629>>, <<65664, 65786>>,
       <<65799, 65843>>, <<65856, 65912>>, <<65930, 65931>>, <<66176, 66204>>,
       <<66208, 66256>>, <<66273, 66299>>, <<66304, 66339>>, <<66349, 66378>>,
       <<66384, 66421>>, <<66432, 66461>>, <<66464, 66499>>, <<66504, 66511>>,
       <<66513, 66517>>, <<66560, 66717>>, <<66720, 66729>>, <<66736, 66771>>,
       <<66776, 66811>>, <<66816, 66855>>, <<66864, 66915>>, <<66928, 66938>>,
       <<66940, 66954>>, <<66956, 66962>>, <<66964, 66965>>, <<66967, 66977>>,
       <<66979, 66993>>, <<66995, 67001>>, <<67003, 67004>>, <<67072, 67382>>,
       <<67392, 67413>>, <<67424, 67431>>, <<67456, 67461>>, <<67463, 67504>>,
       <<67506, 67514>>, <<67584, 67589>>, <<67592, 67592>>, <<67594, 67637>>,
       <<67639, 67640>>, <<67644, 67644>>, <<67647, 67669>>, <<67672, 67702>>,
       <<67705, 67742>>, <<67751, 67759>>, <<67808, 67826>>, <<67828, 67829>>,
       <<67835, 67867>>, <<67872, 67897>>, <<67968, 68023>>, <<68028, 68047>>,
       <<68050, 68096>>, <<68112, 68115>>, <<68117, 68119>>, <<68121, 68149>>,
       <<68160, 68168>>, <<68192, 68222>>, <<68224, 68255>>, <<68288, 68295>>,
       <<68297, 68324>>, <<68331, 68335>>, <<68352, 68405>>, <<68416, 68437>>,
       <<68440, 68466>>, <<68472, 68497>>, <<68521, 68527>>, <<68608, 68680>>,
       <<68736, 68786>>, <<68800, 68850>>, <<68858, 68899>>, <<68912, 68921>>,
       <<69216, 69246>>, <<69248, 69289>>, <<69296, 69297>>, <<69376, 69415>>,
       <<69424, 69445>>, <<69457, 69460>>, <<69488, 69505>>, <<69552, 69579>>,
       <<69600, 69622>>, <<69635, 69687>>, <<69714, 69743>>, <<69745, 69746>>,
       <<69749, 69749>>, <<69763, 69807>>, <<69840, 69864>>, <<69872, 69881>>,
       <<69891, 69926>>, <<69942, 69951>>, <<69956, 69956>>, <<69959, 69959>>,
       <<69968, 70002>>, <<70006, 70006>>, <<70019, 70066>>, <<70081, 70084>>,
       <<70096, 70106>>, <<70108, 70108>>, <<70113, 70132>>, <<70144, 70161>>,
       <<70163, 70187>>, <<70272, 70278>>, <<70280, 70280>>, <<70282, 70285>>,
       <<70287, 70301>>, <<70303, 70312>>, <<70320, 70366>>, <<70384, 70393>>,
       <<70405, 70412>>, <<70415, 70416>>, <<70419, 70440>>, <<70442, 70448>>,
       <<70450, 70451>>, <<70453, 70457>>, <<70461, 70461>>, <<70480, 70480>>,
       <<70493, 70497>>, <<70656, 70708>>, <<70727, 70730>>, <<70736, 70745>>,
       <<70751, 70753>>, <<70784, 70831>>, <<70852, 70853>>, <<70855, 70855>>,
       <<70864, 70873>>, <<71040, 71086>>, <<71128, 71131>>, <<71168, 71215>>,
       <<71236, 71236>>, <<71248, 71257>>, <<71296, 71338>>, <<71352, 71352>>,
       <<71360, 71369>>, <<71424, 71450>>, <<71472, 71483>>, <<71488, 71494>>,
       <<71680, 71723>>, <<71840, 71922>>, <<71935, 71942>>, <<71945, 71945>>,
       <<71948, 71955>>, <<71957, 71958>>, <<71960, 71983>>, <<71999, 71999>>,
       <<72001, 72001>>, <<72016, 72025>>, <<72096, 72103>>, <<72106, 72144>>,
       <<72161, 72161>>, <<72163, 72163>>, <<72192, 72192>>, <<72203, 72242>>,
       <<72250, 72250>>, <<72272, 72272>>, <<72284, 72329>>, <<72349, 72349>>,
       <<72368, 72440>>, <<72704, 72712>>, <<72714, 72750>>, <<72768, 72768>>,
       <<72784, 72812>>, <<72818, 72847>>, <<72960, 72966>>, <<72968, 72969>>,
       <<72971, 73008>>, <<73030, 73030>>, <<73040, 73049>>, <<73056, 73061>>,
       <<73063, 73064>>, <<73066, 73097>>, <<73112, 73112>>, <<73120, 73129>>,
       <<73440, 73458>>, <<73648, 73648>>, <<73664, 73684>>, <<73728, 74649>>,
       <<74752, 74862>>, <<74880, 75075>>, <<77712, 77808>>, <<77824, 78894>>,
       <<82944, 83526>>, <<92160, 92728>>, <<92736, 92766>>, <<92768, 92777>>,
       <<92784, 92862>>, <<92864, 92873>>, <<92880, 92909>>, <<92928, 92975>>,
       <<92992, 92995>>, <<93008, 93017>>, <<93019, 93025>>, <<93027, 93047>>,
       <<93053, 93071>>, <<93760, 93846>>, <<93952, 94026>>, <<94032, 94032>>,
       <<94099, 94111>>, <<94176, 94177>>, <<94179, 94179>>, <<94208, 100343>>,
       <<100352, 101589>>, <<101632, 101640>>, <<110576, 110579>>, <<110581, 110587>>,
       <<110589, 110590>>, <<110592, 110882>>, <<110928, 110930>>, <<110948, 110951>>,
       <<110960, 111355>>, <<113664, 113770>>, <<113776, 113788>>, <<113792, 113800>>,
       <<113808, 113817>>, <<119520, 119539>>, <<119648, 119672>>, <<119808, 119892>>,
       <<119894, 119964>>, <<119966, 119967>>, <<119970, 119970>>, <<119973, 119974>>,
       <<119977, 119980>>, <<119982, 119993>>, <<119995, 119995>>, <<119997, 120003>>,
       <<120005, 120069>>, <<120071, 120074>>, <<120077, 120084>>, <<120086, 120092>>,
       <<120094, 120121>>, <<120123, 120126>>, <<120128, 120132>>, <<120134, 120134>>,
       <<120138, 120144>>, <<120146, 120485>>, <<120488, 120512>>, <<120514, 120538>>,
       <<120540, 120570>>, <<120572, 120596>>, <<120598, 120628>>, <<120630, 120654>>,
       <<120656, 120686>>, <<120688, 120712>>, <<120714, 120744>>, <<120746, 120770>>,
       <<120772, 120779>>, <<120782, 120831>>, <<122624, 122654>>, <<123136, 123180>>,
       <<123191, 123197>>, <<123200, 123209>>, <<123214, 123214>>, <<123536, 123565>>,
       <<123584, 123627>>, <<123632, 123641>>, <<124896, 124902>>, <<124904, 124907>>,
       <<124909, 124910>>, <<124912, 124926>>, <<124928, 125124>>, <<125127, 125135>>,
       <<125184, 125251>>, <<125259, 125259>>, <<125264, 125273>>, <<126065, 126123>>,
       <<126125, 126127>>, <<126129, 126132>>, <<126209, 126253>>, <<126255, 126269>>,
       <<126464, 126467>>, <<126469, 126495>>, <<126497, 126498>>, <<126500, 126500>>,
       <<126503, 126503>>, <<126505, 126514>>, <<126516, 126519>>, <<126521, 126521>>,
       <<126523, 126523>>, <<126530, 126530>>, <<126535, 126535>>, <<126537, 126537>>,
       <<126539, 126539>>, <<126541, 126543>>, <<126545, 126546>>, <<126548, 126548>>,
       <<126551, 126551>>, <<126553, 126553>>, <<126555, 126555>>, <<126557, 126557>>,
       <<126559, 126559>>, <<126561, 126562>>, <<126564, 126564>>, <<126567, 126570>>,
       <<126572, 126578>>, <<126580, 126583>>, <<126585, 126588>>, <<126590, 126590>>,
       <<126592, 126601>>, <<126603, 126619>>, <<126625, 126627>>, <<126629, 126633>>,
       <<126635, 126651>>, <<127232, 127244>>, <<130032, 130041>>, <<131072, 173791>>,
       <<173824, 177976>>, <<177984, 178205>>, <<178208, 183969>>, <<183984, 191456>>,
       <<194560, 195101>>, <<196608, 201546>>
    >>

\* whether the code point c lies in one of the intervals R[lo..hi]
RECURSIVE InRanges(_, _, _, _)
InRanges(R, c, lo, hi) ==
    IF lo > hi THEN FALSE
    ELSE LET mid == (lo + hi) \div 2
         IN  IF c < R[mid][1] THEN InRanges(R, c, lo, mid - 1)
             ELSE IF c > R[mid][2] THEN InRanges(R, c, mid + 1, hi)
             ELSE TRUE

\* \w of a str pattern: chr(c).isalnum() or c == '_'
IsWord(c) ==
    IF c < 128 THEN c \in AsciiWordChars
    ELSE InRanges(WordRanges, c, 1, Len(WordRanges))

\* the code points str.split() cuts at (chr(c).isspace())
SpaceChars ==
    (9..13) \cup (28..32) \cup {133, 160, 5760} \cup (8192..8202)
        \cup {8232, 8233, 8239, 8287, 12288}

IsSpace(c) == c \in SpaceChars

(***************************************************************************)
(* extract_interactions (eda.py 54-72).  The regex engine scans left to    *)
(* right; at each position it tries the pattern, and after a match it      *)
(* resumes at the end of the match.                                        *)
(***************************************************************************)

\* end of the greedy \w+ run that starts at position s (s - 1 when empty)
RECURSIVE WordRunEnd(_, _)
WordRunEnd(t, s) ==
    IF s <= Len(t) /\ IsWord(t[s]) THEN WordRunEnd(t, s + 1) ELSE s - 1

\* the literal part of rt_pattern
RtLiteral == Str(<<"R", "T", " ", "@">>)

\* the literal part of mention_pattern
AtSign == Ord("@")

\* rt_pattern = r'RT @(\w+)' tried at position i
RtMatchAt(t, i) ==
    /\ i + 4 <= Len(t)
    /\ \A j \in 1..4 : t[i + j - 1] = RtLiteral[j]
    /\ IsWord(t[i + 4])

\* mention_pattern = r'@(\w+)' tried at position i
MentionMatchAt(t, i) ==
    /\ i + 1 <= Len(t)
    /\ t[i] = AtSign
    /\ IsWord(t[i + 1])

\* re.findall(rt_pattern, text), scanning from position i
RECURSIVE FindAllRt(_, _)
FindAllRt(t, i) ==
    IF i > Len(t) THEN <<>>
    ELSE IF RtMatchAt(t, i)
         THEN LET e == WordRunEnd(t, i + 4)
              IN  <<SubSeq(t, i + 4, e)>> \o FindAllRt(t, e + 1)
         ELSE FindAllRt(t, i + 1)

\* a variant that strips only the first match (re.sub with count=1)
RECURSIVE SubRtFirstOnly(_, _)
SubRtFirstOnly(t, i) ==
    IF i > Len(t) THEN <<>>
    ELSE IF RtMatchAt(t, i)
         THEN SubSeq(t, WordRunEnd(t, i + 4) + 1, Len(t))
         ELSE <<t[i]>> \o SubRtFirstOnly(t, i + 1)

\* re.sub(rt_pattern, '', text), scanning from position i
RECURSIVE SubRt(_, _)
SubRt(t, i) ==
    IF i > Len(t) THEN <<>>
    ELSE IF RtMatchAt(t, i)
         THEN SubRt(t, WordRunEnd(t, i + 4) + 1)
         ELSE <<t[i]>> \o SubRt(t, i + 1)

\* re.findall(mention_pattern, text), scanning from position i
RECURSIVE FindAllMention(_, _)
FindAllMention(t, i) ==
    IF i > Len(t) THEN <<>>
    ELSE IF MentionMatchAt(t, i)
         THEN LET e == WordRunEnd(t, i + 1)
              IN  <<SubSeq(t, i + 1, e)>> \o FindAllMention(t, e + 1)
         ELSE FindAllMention(t, i + 1)

\* a variant that searches mentions in the text as given, RT parts included
ExtractMentionsNoStrip(t) == FindAllMention(t, 1)

\* lines 68-70: mentions of the text with the RT parts removed
ExtractMentions(t) == FindAllMention(SubRt(t, 1), 1)

\* the pair extract_interactions returns; x is [isStr, chars]
extract_interactions(x) ==
    IF ~x.isStr THEN [rts |-> <<>>, mentions |-> <<>>]
    ELSE [rts |-> FindAllRt(x.chars, 1), mentions |-> ExtractMentions(x.chars)]


\* the set of the elements of a list (the edge set of nx.DiGraph)
ToSetOfEdges(edges) == {edges[k] : k \in 1..Len(edges)}

(***************************************************************************)
(* Corpora.  A missing author identifier is the float NaN of pandas.       *)
(***************************************************************************)
NaN == "nan"

BaseCols == {"user_id", "user_screen_name", "tweet"}

\* df[mask]: the rows whose entry in the boolean mask is True, in order,
\* from position k on
RECURSIVE SelectRows(_, _, _)
SelectRows(rows, mask, k) ==
    IF k > Len(rows) THEN <<>>
    ELSE (IF mask[k] THEN <<rows[k]>> ELSE <<>>)
             \o SelectRows(rows, mask, k + 1)

\* to_csv(path, index=False): the columns of each row, the index dropped
CsvRows(rows) ==
    [k \in 1..Len(rows) |->
        [c \in (DOMAIN rows[k]) \ {"idx"} |-> rows[k][c]]]

\* a variant that leaves an existing file alone, as the model download does
WriteFileIfAbsent(fs, path, rows) ==
    [p \in (DOMAIN fs) \cup {path} |->
        IF p \in DOMAIN fs THEN fs[p] ELSE CsvRows(rows)]

\* the file system after to_csv(path): the file is created or overwritten
WriteFile(fs, path, rows) ==
    [p \in (DOMAIN fs) \cup {path} |-> IF p = path THEN CsvRows(rows) ELSE fs[p]]

\* a falsy save_prefix: None (the default) or the empty string
NoPrefix == ""

(***************************************************************************)
(* remove_bots (preprocessing.py 97-123).                                  *)
(***************************************************************************)

\* df['user_id'].value_counts(): posts per author, NaN dropped
value_counts(rows) ==
    LET authors == {rows[k].user_id : k \in 1..Len(rows)} \ {NaN}
    IN  [u \in authors |->
            Cardinality({k \in 1..Len(rows) : rows[k].user_id = u})]

\* the values of a Series in ascending order
RECURSIVE SortedValues(_, _)
SortedValues(series, S) ==
    IF S = {} THEN <<>>
    ELSE LET u == CHOOSE u \in S : \A v \in S : series[u] <= series[v]
         IN  <<series[u]>> \o SortedValues(series, S \ {u})

\* Series.quantile(q), linear interpolation; q is the fraction q.num/q.den
\* and the result the fraction num/den, or NaN for an empty Series
Quantile(series, q) ==
    LET v == SortedValues(series, DOMAIN series)
        n == Len(v)
        pos == q.num * (n - 1)
        lo == pos \div q.den
        frac == pos % q.den
    IN  IF n = 0 THEN [nan |-> TRUE, num |-> 0, den |-> 1]
        ELSE [nan |-> FALSE,
              num |-> IF frac = 0 THEN v[lo + 1] * q.den
                      ELSE v[lo + 1] * q.den + (v[lo + 2] - v[lo + 1]) * frac,
              den |-> q.den]

\* a variant that flags counts at or above the threshold
ExceedsOrEqual(count, threshold) ==
    ~threshold.nan /\ count * threshold.den >= threshold.num

\* user_counts > threshold; a comparison with NaN is False
Exceeds(count, threshold) ==
    ~threshold.nan /\ count * threshold.den > threshold.num

\* what one call computes: the threshold, the two subsets, whether line 113
\* raised (int(threshold) of NaN), and whether the bot subset was written
remove_bots(df, percentile, save_prefix) ==
    LET user_counts == value_counts(df.rows)
        threshold == Quantile(user_counts, percentile)
        bot_ids == {u \in DOMAIN user_counts : Exceeds(user_counts[u], threshold)}
        isin == [k \in 1..Len(df.rows) |-> df.rows[k].user_id \in bot_ids]
        df_bots == SelectRows(df.rows, isin, 1)
        df_human == SelectRows(df.rows, [k \in 1..Len(isin) |-> ~isin[k]], 1)
    IN  [raised |-> threshold.nan,
         threshold |-> threshold,
         bot_ids |-> bot_ids,
         df_bots |-> [cols |-> df.cols, rows |-> df_bots],
         df_human |-> [cols |-> df.cols, rows |-> df_human],
         saved |-> ~threshold.nan /\ save_prefix # NoPrefix /\ Len(df_bots) > 0]

BotsPath(save_prefix) == <<save_prefix, "_bots_removed.csv">>

\* the call remove_bots(heap[o], percentile, save_prefix)
RemoveBotsCall(o, percentile, save_prefix) ==
    LET r == remove_bots(heap[o], percentile, save_prefix)
    IN  /\ heap' = IF r.raised THEN heap ELSE Append(heap, r.df_human)
        /\ files' = IF r.saved
                    THEN WriteFile(files, BotsPath(save_prefix), r.df_bots.rows)
                    ELSE files
        /\ last' = [op |-> "remove_bots", arg |-> o, before |-> heap[o],
                    percentile |-> percentile, save_prefix |-> save_prefix,
                    raised |-> r.raised,
                    ret |-> IF r.raised THEN 0 ELSE Len(heap) + 1,
                    threshold |-> r.threshold,
                    removed |-> r.df_bots.rows,
                    saved |-> r.saved]
        /\ UNCHANGED <<text, rts, mentions, lang_model, model_file,
                       downloads, loads>>

(***************************************************************************)
(* download_fasttext_model and filter_language (preprocessing.py 45-86).   *)
(* The language identifier is an external classifier: which texts it       *)
(* labels 'en' is left open, one answer per text and call.  The file at    *)
(* LANG_MODEL_PATH is absent, partial (some other content than the model)  *)
(* or complete.  urlretrieve and load_model are external too: each call    *)
(* either returns or raises, and the code handles neither exception.       *)
(***************************************************************************)

\* None: the absent corpus load_data returns on failure
None == 0

\* str(text).replace("\n", " ")
CleanText(t) ==
    [k \in 1..Len(t) |-> IF t[k] = Ord("\n") THEN Ord(" ") ELSE t[k]]

\* a variant that loads on every call, the held model ignored
NeedsLoadAlways(held) == TRUE

\* if lang_model is None
NeedsLoad(held) == held = "None"

\* if not os.path.exists(LANG_MODEL_PATH)
NeedsDownload(file) == file = "absent"

\* how a call of urllib.request.urlretrieve can end:
\*   complete     it returns, the whole model is on disk
\*   truncated    it returns, the file holds another or a shorter body (a
\*                response without Content-Length that ends early, a 200
\*                answer of a proxy)
\*   refused      it raises before the file is created (URLError)
\*   interrupted  it raises after the file was created, the body incomplete
\*   overstated   it raises ContentTooShortError after the whole body was
\*                written (a Content-Length larger than the body)
UrlretrieveOutcomes ==
    {"complete", "truncated", "refused", "interrupted", "overstated"}

\* the file urlretrieve leaves at LANG_MODEL_PATH
Urlretrieve(outcome) ==
    IF outcome \in {"complete", "overstated"} THEN "complete"
    ELSE IF outcome \in {"truncated", "interrupted"} THEN "partial"
    ELSE "absent"

\* whether urlretrieve raises
UrlretrieveRaises(outcome) ==
    outcome \in {"refused", "interrupted", "overstated"}

\* download_fasttext_model() on the file state, with the outcome urlretrieve
\* has when it is called: the file afterwards, whether urlretrieve was
\* called and whether it raised
download_fasttext_model(file, outcome) ==
    IF NeedsDownload(file)
    THEN [file |-> Urlretrieve(outcome), called |-> TRUE,
          raised |-> UrlretrieveRaises(outcome)]
    ELSE [file |-> file, called |-> FALSE, raised |-> FALSE]

\* how a call of fasttext.load_model can end.  What the library does with a
\* given file is not part of this repository: on a complete file and on a
\* partial one alike it may return a model or raise.
LoadOutcomes == {"loaded", "raised"}

\* whether fasttext.load_model(LANG_MODEL_PATH) raises
LoadRaises(file, loading) == file = "absent" \/ loading = "raised"

\* the call download_fasttext_model() on its own
DownloadFasttextModelCall(outcome) ==
    LET d == download_fasttext_model(model_file, outcome)
    IN  /\ model_file' = d.file
        /\ downloads' = IF d.called THEN downloads + 1 ELSE downloads
        /\ last' = [op |-> "download_fasttext_model", raised |-> d.raised,
                    downloaded |-> d.called, loaded |-> FALSE]
        /\ UNCHANGED <<text, rts, mentions, heap, files, lang_model, loads>>

ForeignPath(save_prefix) == <<save_prefix, "_foreign_removed.csv">>

\* the early return of line 55: the argument itself is handed back
FilterLanguageEmptyCall(o) ==
    /\ IF o = None THEN TRUE ELSE Len(heap[o].rows) = 0
    /\ last' = [op |-> "filter_language", arg |-> o,
                before |-> IF o = None THEN [cols |-> {}, rows |-> <<>>] ELSE heap[o],
                save_prefix |-> NoPrefix, raised |-> FALSE, ret |-> o,
                removed |-> <<>>, saved |-> FALSE,
                loaded |-> FALSE, downloaded |-> FALSE]
    /\ UNCHANGED <<text, rts, mentions, heap, files, lang_model, model_file,
                   downloads, loads>>

\* the call filter_language(heap[o], save_prefix) on a non-empty corpus;
\* english is the set of cleaned texts the classifier labels 'en', outcome
\* and loading the ways urlretrieve and load_model end if this call reaches
\* them.  An exception of line 58 or line 60 leaves the call before
\* anything is classified or written.
FilterLanguageCall(o, save_prefix, english, outcome, loading) ==
    LET df == heap[o]
        load == NeedsLoad(lang_model)
        d == IF load THEN download_fasttext_model(model_file, outcome)
             ELSE [file |-> model_file, called |-> FALSE, raised |-> FALSE]
        load_called == load /\ ~d.raised
        raised == d.raised \/ (load_called /\ LoadRaises(d.file, loading))
        mask == [k \in 1..Len(df.rows) |-> CleanText(df.rows[k].tweet) \in english]
        df_foreign == SelectRows(df.rows, [k \in 1..Len(mask) |-> ~mask[k]], 1)
        df_eng == SelectRows(df.rows, mask, 1)
        saved == ~raised /\ save_prefix # NoPrefix /\ Len(df_foreign) > 0
    IN  /\ Len(df.rows) > 0
        /\ downloads' = IF d.called THEN downloads + 1 ELSE downloads
        /\ model_file' = d.file
        /\ loads' = IF load_called THEN loads + 1 ELSE loads
        /\ lang_model' = IF load_called /\ ~raised THEN "model" ELSE lang_model
        /\ files' = IF saved
                    THEN WriteFile(files, ForeignPath(save_prefix), df_foreign)
                    ELSE files
        /\ heap' = IF raised THEN heap
                   ELSE Append(heap, [cols |-> df.cols, rows |-> df_eng])
        /\ last' = [op |-> "filter_language", arg |-> o, before |-> df,
                    save_prefix |-> save_prefix, raised |-> raised,
                    ret |-> IF raised THEN None ELSE Len(heap) + 1,
                    removed |-> IF raised THEN <<>> ELSE df_foreign,
                    saved |-> saved,
                    loaded |-> load_called, downloaded |-> d.called]
        /\ UNCHANGED <<text, rts, mentions>>

(***************************************************************************)
(* filter_noise (preprocessing.py 88-95).                                  *)
(***************************************************************************)

\* a variant that splits on the single space (x.split(' ')): every space
\* separates two fields, empty ones included
WordCountSplitOnSpace(t) ==
    Cardinality({i \in 1..Len(t) : t[i] = Ord(" ")}) + 1

\* len(x.split()): the text is cut at runs of whitespace; s is the scanning
\* position and inWord tells whether a word is open
RECURSIVE SplitCount(_, _, _)
SplitCount(t, s, inWord) ==
    IF s > Len(t) THEN 0
    ELSE IF IsSpace(t[s]) THEN SplitCount(t, s + 1, FALSE)
    ELSE (IF inWord THEN 0 ELSE 1) + SplitCount(t, s + 1, TRUE)

WordCount(t) == SplitCount(t, 1, FALSE)

\* df.drop_duplicates(subset=['tweet'], keep='first'): row k stays when no
\* earlier row has the same body
RECURSIVE DropDuplicates(_, _, _)
DropDuplicates(rows, k, seen) ==
    IF k > Len(rows) THEN <<>>
    ELSE IF rows[k].tweet \in seen THEN DropDuplicates(rows, k + 1, seen)
    ELSE <<rows[k]>> \o DropDuplicates(rows, k + 1, seen \cup {rows[k].tweet})

\* df['word_count'] = ...: the column is added or overwritten in every row
WithWordCount(rows) ==
    [k \in 1..Len(rows) |->
        [c \in (DOMAIN rows[k]) \cup {"word_count"} |->
            IF c = "word_count" THEN WordCount(rows[k].tweet) ELSE rows[k][c]]]

\* the corpus filter_noise returns
filter_noise(df, min_words) ==
    LET df_clean == WithWordCount(DropDuplicates(df.rows, 1, {}))
        enough == [k \in 1..Len(df_clean) |-> df_clean[k].word_count >= min_words]
    IN  [cols |-> df.cols \cup {"word_count"},
         rows |-> SelectRows(df_clean, enough, 1)]

\* the call filter_noise(heap[o], min_words): a new object is returned
FilterNoiseCall(o, min_words) ==
    LET r == filter_noise(heap[o], min_words)
    IN  /\ heap' = Append(heap, r)
        /\ last' = [op |-> "filter_noise", arg |-> o, before |-> heap[o],
                    min_words |-> min_words, raised |-> FALSE,
                    ret |-> Len(heap) + 1,
                    removed |-> SelectRows(heap[o].rows,
                                   [k \in 1..Len(heap[o].rows) |->
                                       \A j \in 1..Len(r.rows) :
                                           r.rows[j].idx # heap[o].rows[k].idx], 1),
                    saved |-> FALSE]
        /\ UNCHANGED <<text, rts, mentions, files, lang_model, model_file,
                       downloads, loads>>

(***************************************************************************)
(* analyze_semantic_feasibility (eda.py 131-154).                          *)
(***************************************************************************)

\* avg_len < 8
ShortMean == 8

\* unique_ratio < 0.3, as the fraction 3/10
UniqueNum == 3

UniqueDen == 10

RECURSIVE SumWordCounts(_, _)
SumWordCounts(rows, k) ==
    IF k > Len(rows) THEN 0
    ELSE rows[k].word_count + SumWordCounts(rows, k + 1)

\* df['tweet'].nunique()
NUnique(rows) == Cardinality({rows[k].tweet : k \in 1..Len(rows)})

\* lines 149-154: the if, and the if/else after it
SemanticReport(short, critical) ==
    [short |-> short, critical |-> critical, adequate |-> ~critical]

\* what one call does to its argument and what it prints; on an empty
\* corpus line 143 divides by zero, after line 139 has assigned the column
analyze_semantic_feasibility(df) ==
    LET rows == WithWordCount(df.rows)
        n == Len(rows)
        mutated == [cols |-> df.cols \cup {"word_count"}, rows |-> rows]
    IN  IF n = 0
        THEN [df |-> mutated, raised |-> TRUE,
              report |-> [short |-> FALSE, critical |-> FALSE, adequate |-> FALSE]]
        ELSE [df |-> mutated, raised |-> FALSE,
              report |-> SemanticReport(
                            SumWordCounts(rows, 1) < ShortMean * n,
                            NUnique(rows) * UniqueDen < UniqueNum * n)]

\* the call analyze_semantic_feasibility(heap[o]): the argument object itself
\* receives the word_count column
AnalyzeSemanticCall(o) ==
    LET r == analyze_semantic_feasibility(heap[o])
    IN  /\ heap' = [heap EXCEPT ![o] = r.df]
        /\ last' = [op |-> "analyze_semantic_feasibility", arg |-> o,
                    before |-> heap[o], raised |-> r.raised,
                    report |-> r.report]
        /\ UNCHANGED <<text, rts, mentions, files, lang_model, model_file,
                       downloads, loads>>

(***************************************************************************)
(* Sampling.  df.sample(n, random_state=42) draws n rows with a seeded     *)
(* generator; which rows it draws is left open here.                       *)
(***************************************************************************)
RECURSIVE Choose(_, _)
Choose(m, n) ==
    IF n = 0 THEN {{}}
    ELSE IF m < n THEN {}
    ELSE Choose(m - 1, n) \cup {S \cup {m} : S \in Choose(m - 1, n - 1)}

\* the sets of n row positions a sample of n rows can consist of
Samples(rows, n) == Choose(Len(rows), n)

Min(a, b) == IF a < b THEN a ELSE b

RowsAt(rows, S) == [k \in 1..Cardinality(S) |->
                       rows[CHOOSE x \in S : Cardinality({y \in S : y < x}) = k - 1]]

(***************************************************************************)
(* analyze_topology_feasibility (eda.py 78-125).                           *)
(***************************************************************************)

\* default sample_size
TopologySample == 10000

\* the fraction 0.05 as 1/20
FragmentationInverse == 20

\* lines 96-102: the edges each sampled row adds, duplicates kept
RECURSIVE RetweetEdges(_, _)
RetweetEdges(rows, k) ==
    IF k > Len(rows) THEN <<>>
    ELSE LET targets == extract_interactions(
                            [isStr |-> TRUE, chars |-> rows[k].tweet]).rts
         IN  [j \in 1..Len(targets) |-> <<rows[k].user_screen_name, targets[j]>>]
                 \o RetweetEdges(rows, k + 1)

\* the nodes reachable from the set S along edges in either direction
RECURSIVE WeakReach(_, _)
WeakReach(E, S) ==
    LET N == S \cup {e[2] : e \in {d \in E : d[1] \in S}}
               \cup {e[1] : e \in {d \in E : d[2] \in S}}
    IN  IF N = S THEN S ELSE WeakReach(E, N)

\* nx.weakly_connected_components(G)
WeakComponents(E) ==
    LET nodes == {e[1] : e \in E} \cup {e[2] : e \in E}
    IN  {WeakReach(E, {n}) : n \in nodes}

\* len(max(components, key=len))
GiantSize(components) ==
    LET sizes == {Cardinality(c) : c \in components}
    IN  CHOOSE m \in sizes : \A x \in sizes : x <= m

\* a variant that also reports fragmentation at exactly 0.05
IsFragmentedInclusive(giant_size, total_nodes) ==
    giant_size * FragmentationInverse <= total_nodes

\* (giant_size / total_nodes) < 0.05
IsFragmented(giant_size, total_nodes) ==
    giant_size * FragmentationInverse < total_nodes

NoTopologyNumbers == [nodes |-> 0, components |-> 0, giant |-> 0]

\* what one call prints for the sample it drew
analyze_topology_feasibility(sample) ==
    LET edges == RetweetEdges(sample, 1)
        edge_count == Len(edges)
        G == ToSetOfEdges(edges)
        components == WeakComponents(G)
        total_nodes == Cardinality({e[1] : e \in G} \cup {e[2] : e \in G})
    IN  IF edge_count = 0
        THEN [outcome |-> "no_edges", edges |-> 0, numbers |-> NoTopologyNumbers]
        ELSE IF components = {}
        THEN [outcome |-> "graph_empty", edges |-> edge_count,
              numbers |-> NoTopologyNumbers]
        ELSE [outcome |-> IF IsFragmented(GiantSize(components), total_nodes)
                          THEN "fragmented" ELSE "viable",
              edges |-> edge_count,
              numbers |-> [nodes |-> total_nodes,
                           components |-> Cardinality(components),
                           giant |-> GiantSize(components)]]

\* the call analyze_topology_feasibility(heap[o], sample_size); S is the set
\* of rows df.sample drew when the corpus is larger than the sample
AnalyzeTopologyCall(o, sample_size, S) ==
    LET rows == heap[o].rows
        sample == IF Len(rows) > sample_size THEN RowsAt(rows, S) ELSE rows
    IN  /\ S \in Samples(rows, Min(sample_size, Len(rows)))
        /\ last' = [op |-> "analyze_topology_feasibility", arg |-> o,
                    before |-> heap[o], sample |-> sample,
                    report |-> analyze_topology_feasibility(sample)]
        /\ UNCHANGED <<text, rts, mentions, heap, files, lang_model,
                       model_file, downloads, loads>>

(***************************************************************************)
(* analyze_multiplex_overlap (eda.py 160-203).                             *)
(***************************************************************************)

\* default sample_size
MultiplexSample == 20000

\* intersect < 50
WeakOverlap == 50

analyze_multiplex_overlap(sample) ==
    LET found(k) == extract_interactions([isStr |-> TRUE, chars |-> sample[k].tweet])
        rt_layer_users == {sample[k].user_screen_name :
                              k \in {j \in 1..Len(sample) : found(j).rts # <<>>}}
        mention_layer_users == {sample[k].user_screen_name :
                              k \in {j \in 1..Len(sample) : found(j).mentions # <<>>}}
        intersect == Cardinality(rt_layer_users \cap mention_layer_users)
        union == Cardinality(rt_layer_users \cup mention_layer_users)
    IN  [outcome |-> IF union = 0 THEN "no_active_users"
                     ELSE IF intersect < WeakOverlap THEN "weak" ELSE "sufficient",
         retweeting |-> Cardinality(rt_layer_users),
         mentioning |-> Cardinality(mention_layer_users),
         intersect |-> intersect,
         union |-> union]

\* the call analyze_multiplex_overlap(heap[o], sample_size); S is the set of
\* rows df.sample(min(len(df), sample_size)) drew
AnalyzeMultiplexCall(o, sample_size, S) ==
    LET rows == heap[o].rows
    IN  /\ S \in Samples(rows, Min(Len(rows), sample_size))
        /\ last' = [op |-> "analyze_multiplex_overlap", arg |-> o,
                    before |-> heap[o], sample |-> RowsAt(rows, S),
                    report |-> analyze_multiplex_overlap(RowsAt(rows, S))]
        /\ UNCHANGED <<text, rts, mentions, heap, files, lang_model,
                       model_file, downloads, loads>>

(***************************************************************************)
(* State shared by every specification: what construction leaves behind.   *)
(***************************************************************************)
NoText == [isStr |-> FALSE, chars |-> <<>>]

NoFiles == <<>>

NoCall == [op |-> "none"]

InitExtractIdle ==
    /\ rts = <<>>
    /\ mentions = <<>>

InitProcess ==
    /\ files = NoFiles
    /\ lang_model = "None"
    /\ downloads = 0
    /\ loads = 0
    /\ last = NoCall

(***************************************************************************)
(* SpecExtract: extract_interactions applied to one argument.              *)
(***************************************************************************)
Alphabet == {Ord("R"), Ord("T"), Ord(" "), Ord("@")}

BoundedTexts == UNION {[1..n -> Alphabet] : n \in 0..MaxTextLen}

\* the example of the spec's section 8
ExampleText ==
    Str(<<"R", "T", " ", "@", "a", "l", "i", "c", "e", " ", "g", "r", "e", "a",
      "t", " ", "p", "o", "i", "n", "t", "!", " ", "a", "l", "s", "o", " ",
      "c", "c", " ", "@", "b", "o", "b", " ", "a", "n", "d", " ", "@", "a",
      "l", "i", "c", "e">>)

\* 'RT @caf' and U+00E9, a letter outside ASCII, then ' @b' and the
\* Arabic-Indic digit U+0661
UnicodeHandleText ==
    Str(<<"R", "T", " ", "@", "c", "a", "f">>) \o <<233>>
        \o Str(<<" ", "@", "b">>) \o <<1633>>

\* a handle of two CJK ideographs, U+7528 U+6237
CjkHandle == <<29992, 25143>>

LongTexts ==
    { ExampleText,
      Str(<<"R", "T", " ", "R", "T", " ", "@", "a", "@", "b">>),
      Str(<<"@", "a", "b", "R", "T", " ", "@", "a">>),
      Str(<<"R", "T", " ", "@", "a", " ", "R", "T", " ", "@", "a", " ", "@", "a">>),
      Str(<<"R", "T", " ", "@", "a", "R", "T", " ", "@", "b">>),
      Str(<<"R", "T", " ", "@", "x", " ", "h", "i">>),
      UnicodeHandleText,
      Str(<<"h", "i", " ", "@">>) \o CjkHandle \o Str(<<"!">>),
      Str(<<"R", "T">>) \o <<160>> \o Str(<<"@", "a">>),
      Str(<<"R", "T", " ", "@", "R", "T", " ", "@", "R", "T", " ", "@", "a">>),
      Str(<<"R", "T", " ", "@", "a", " ", "R", "T", " ", "@", "b", " ", "@",
            "c", " ", "@", "a">>) }

InitExtract ==
    /\ text \in {NoText} \cup {[isStr |-> TRUE, chars |-> c] :
                                   c \in BoundedTexts \cup LongTexts}
    /\ InitExtractIdle
    /\ heap = <<>>
    /\ model_file = "absent"
    /\ InitProcess

Extract ==
    /\ last.op = "none"
    /\ LET r == extract_interactions(text)
       IN  /\ rts' = r.rts
           /\ mentions' = r.mentions
    /\ last' = [op |-> "extract_interactions"]
    /\ UNCHANGED <<text, heap, files, lang_model, model_file, downloads, loads>>

NextExtract == Extract

SpecExtract == InitExtract /\ [][NextExtract]_vars

(***************************************************************************)
(* Corpora as the loader publishes them: index labels 0, 1, 2, ...         *)
(***************************************************************************)
Handle1 == Str(<<"u", "1">>)

PlainTweet == Str(<<"h", "i">>)

MkRow(i, uid, name, tweet) ==
    [idx |-> i, user_id |-> uid, user_screen_name |-> name, tweet |-> tweet]

MkCorpus(rows) == [cols |-> BaseCols, rows |-> rows]

UserIds == {"u1", "u2", "u3", NaN}

Percentiles ==
    { [num |-> 0, den |-> 1], [num |-> 1, den |-> 4], [num |-> 1, den |-> 2],
      [num |-> 199, den |-> 200], [num |-> 1, den |-> 1] }

Prefixes == {NoPrefix, "runA"}

(***************************************************************************)
(* SpecBots: remove_bots applied once to a loaded corpus.                  *)
(***************************************************************************)
BotCorpora ==
    UNION { { MkCorpus([k \in 1..n |-> MkRow(k - 1, u[k], Handle1, PlainTweet)]) :
                u \in [1..n -> UserIds] } : n \in 0..MaxBotRows }

InitBots ==
    /\ text = NoText
    /\ InitExtractIdle
    /\ heap \in {<<df>> : df \in BotCorpora}
    /\ model_file = "absent"
    /\ InitProcess

NextBots ==
    \E q \in Percentiles, p \in Prefixes :
        /\ last.op = "none"
        /\ RemoveBotsCall(1, q, p)

SpecBots == InitBots /\ [][NextBots]_vars

(***************************************************************************)
(* SpecNoise: filter_noise applied to a loaded corpus, and then once more  *)
(* to its own output with the same minimum.                                *)
(***************************************************************************)
NoiseTweets ==
    { <<>>,
      Str(<<"h", "i">>),
      Str(<<" ", " ", "a", " ", " ", "b", " ">>),
      Str(<<"R", "T", " ", "@", "x", " ", "h", "i">>),
      Str(<<"a", " ", "b", "\n", "c", " ", "d">>),
      Str(<<"a", "\r", "b">>) \o <<160>> \o Str(<<"c">>) \o <<12288, 11>>
          \o Str(<<"d">>) }

\* the end-to-end scenario of the spec's section 8: six posts, four of them
\* with the body 'RT @x hi'
ScenarioCorpus ==
    MkCorpus(<< MkRow(0, "u1", Handle1, Str(<<"R", "T", " ", "@", "x", " ", "h", "i">>)),
                MkRow(1, "u1", Handle1, Str(<<"a", " ", "b", "\n", "c", " ", "d">>)),
                MkRow(2, "u2", Handle1, Str(<<"R", "T", " ", "@", "x", " ", "h", "i">>)),
                MkRow(3, "u2", Handle1, Str(<<"R", "T", " ", "@", "x", " ", "h", "i">>)),
                MkRow(4, "u3", Handle1, Str(<<"h", "i", " ", "a">>)),
                MkRow(5, "u3", Handle1, Str(<<"R", "T", " ", "@", "x", " ", "h", "i">>)) >>)

NoiseCorpora ==
    {ScenarioCorpus} \cup
    UNION { { MkCorpus([k \in 1..n |-> MkRow(k - 1, "u1", Handle1, t[k])]) :
                t \in [1..n -> NoiseTweets] } : n \in 0..MaxNoiseRows }

\* min_words: the default 4 and smaller minimums
MinWords == {0, 1, 2, 3, 4}

InitNoise ==
    /\ text = NoText
    /\ InitExtractIdle
    /\ heap \in {<<df>> : df \in NoiseCorpora}
    /\ model_file = "absent"
    /\ InitProcess

NoiseFirst ==
    /\ Len(heap) = 1
    /\ \E m \in MinWords : FilterNoiseCall(1, m)

NoiseAgain ==
    /\ Len(heap) = 2
    /\ FilterNoiseCall(last.ret, last.min_words)

NextNoise == NoiseFirst \/ NoiseAgain

SpecNoise == InitNoise /\ [][NextNoise]_vars

(***************************************************************************)
(* SpecSemantic: analyze_semantic_feasibility applied once to a corpus.    *)
(***************************************************************************)
Words1 == Str(<<"h", "i">>)

Words8 == Str(<<"a", " ", "b", " ", "c", " ", "d", " ", "e", " ", "f", " ", "g", " ", "h">>)

Words8b == Str(<<"b", " ", " ", "c", " ", "d", " ", "e", " ", "f", " ", "g", " ", "h", "\n", "i">>)

Words15 == Str(<<"a", " ", "b", " ", "c", " ", "d", " ", "e", " ", "f", " ", "g", " ", "h", " ", "i", " ", "j", " ", "k", " ", "l", " ", "m", " ", "n", " ", "o">>)

SemTweets == {Words1, Words8, Words8b, Words15}

\* ten posts with three distinct bodies: a uniqueness ratio of exactly 3/10
TenPostsThreeBodies ==
    MkCorpus([k \in 1..10 |->
                 MkRow(k - 1, "u1", Handle1,
                       IF k = 1 THEN Words8b ELSE IF k = 2 THEN Words15 ELSE Words8)])

SemCorpora ==
    {TenPostsThreeBodies} \cup
    UNION { { MkCorpus([k \in 1..n |-> MkRow(k - 1, "u1", Handle1, t[k])]) :
                t \in [1..n -> SemTweets] } : n \in 0..MaxSemRows }

InitSemantic ==
    /\ text = NoText
    /\ InitExtractIdle
    /\ heap \in {<<df>> : df \in SemCorpora}
    /\ model_file = "absent"
    /\ InitProcess

NextSemantic ==
    /\ last.op = "none"
    /\ AnalyzeSemanticCall(1)

SpecSemantic == InitSemantic /\ [][NextSemantic]_vars

(***************************************************************************)
(* SpecTopology: analyze_topology_feasibility applied once to a corpus     *)
(* made of a few arbitrary posts followed by posts of authors who each     *)
(* retweet themselves (one node and one component per author).             *)
(***************************************************************************)
DigitChars == Str(<<"0", "1", "2", "3", "4", "5", "6", "7", "8", "9">>)

\* the handle of the k-th self-retweeting author: s1, s2, ..., s10, ...
SelfHandle(k) ==
    IF k < 10 THEN <<Ord("s"), DigitChars[k + 1]>>
    ELSE <<Ord("s"), DigitChars[(k \div 10) + 1], DigitChars[(k % 10) + 1]>>

TopoHandles == {Str(<<"a">>), Str(<<"b">>)}

TopoTweets ==
    { Str(<<"h", "i">>),
      Str(<<"R", "T", " ", "@", "a">>),
      Str(<<"R", "T", " ", "@", "b", " ", "R", "T", " ", "@", "c">>) }

TopoCorpus(names, tweets, tail) ==
    MkCorpus([k \in 1..(Len(names) + tail) |->
                 IF k <= Len(names)
                 THEN MkRow(k - 1, "u1", names[k], tweets[k])
                 ELSE MkRow(k - 1, "u1", SelfHandle(k - Len(names)),
                            RtLiteral \o SelfHandle(k - Len(names)))])

TopoCorpora ==
    UNION { { TopoCorpus(names, tweets, tail) :
                names \in [1..n -> TopoHandles], tweets \in [1..n -> TopoTweets],
                tail \in 0..MaxTail } : n \in 0..MaxTopoRows }

TopoSampleSizes == {1, TopologySample}

InitTopology ==
    /\ text = NoText
    /\ InitExtractIdle
    /\ heap \in {<<df>> : df \in TopoCorpora}
    /\ model_file = "absent"
    /\ InitProcess

NextTopology ==
    /\ last.op = "none"
    /\ \E size \in TopoSampleSizes :
           \E S \in Samples(heap[1].rows, Min(size, Len(heap[1].rows))) :
               AnalyzeTopologyCall(1, size, S)

SpecTopology == InitTopology /\ [][NextTopology]_vars

(***************************************************************************)
(* SpecPipeline: any sequence of analyzer and filter calls on the loaded   *)
(* corpus and on the corpora the filters return.                           *)
(***************************************************************************)
\* the author of the k-th post: u1 posts twice for each post of u2
PipeAuthorAt(k) == IF k % 3 = 0 THEN <<"u2", Str(<<"b">>) >> ELSE <<"u1", Str(<<"a">>) >>

\* the body of the k-th post: a retweet with a mention, and a short post
PipeTweetAt(k) ==
    IF k % 2 = 1
    THEN Str(<<"R", "T", " ", "@", "a", " ", "a", " ", "b", "\n", "@", "b">>)
    ELSE Str(<<"h", "i">>)

\* the empty corpus and the corpus of the first MaxPipeRows posts; the
\* filters return the smaller ones
PipeCorpora ==
    { MkCorpus([k \in 1..n |->
                   MkRow(k - 1, PipeAuthorAt(k)[1], PipeAuthorAt(k)[2],
                         PipeTweetAt(k))]) : n \in {0, MaxPipeRows} }

PipePrefixes == {NoPrefix, "runA"}

\* min_words and percentile are left at their defaults
DefaultMinWords == 4

DefaultPercentile == [num |-> 199, den |-> 200]

InitPipeline ==
    /\ text = NoText
    /\ InitExtractIdle
    /\ heap \in {<<df>> : df \in PipeCorpora}
    /\ model_file \in {"absent", "complete"}
    /\ InitProcess

CanAllocate == Len(heap) < MaxObjs

PipeFilterLanguageEmpty ==
    \E o \in {None} \cup DOMAIN heap : FilterLanguageEmptyCall(o)

\* the bound on the calls of urlretrieve and on those of load_model: a call
\* that would make one more is left out
MayDownload == NeedsDownload(model_file) => downloads < MaxAttempts

MayLoad == NeedsLoad(lang_model) => (loads < MaxAttempts /\ MayDownload)

\* the outcomes to tell apart: those of urlretrieve when the call reaches
\* it, those of load_model when the call reaches it
DownloadOutcomes(reached) == IF reached THEN UrlretrieveOutcomes ELSE {"complete"}

LoadingOutcomes(reached) == IF reached THEN LoadOutcomes ELSE {"loaded"}

PipeDownloadModel ==
    \E outcome \in DownloadOutcomes(NeedsDownload(model_file)) :
        MayDownload /\ DownloadFasttextModelCall(outcome)

PipeFilterLanguage ==
    \E o \in DOMAIN heap, p \in PipePrefixes,
       outcome \in DownloadOutcomes(NeedsLoad(lang_model)
                                        /\ NeedsDownload(model_file)) :
        \E loading \in LoadingOutcomes(
                           /\ NeedsLoad(lang_model)
                           /\ ~(NeedsDownload(model_file)
                                   /\ UrlretrieveRaises(outcome))),
           english \in SUBSET {CleanText(heap[o].rows[k].tweet) :
                                  k \in 1..Len(heap[o].rows)} :
            /\ CanAllocate /\ MayLoad
            /\ FilterLanguageCall(o, p, english, outcome, loading)

PipeFilterNoise ==
    \E o \in DOMAIN heap :
        CanAllocate /\ FilterNoiseCall(o, DefaultMinWords)

PipeRemoveBots ==
    \E o \in DOMAIN heap, p \in PipePrefixes :
        CanAllocate /\ RemoveBotsCall(o, DefaultPercentile, p)

PipeAnalyzeSemantic ==
    \E o \in DOMAIN heap : AnalyzeSemanticCall(o)

PipeAnalyzeTopology ==
    \E o \in DOMAIN heap :
        AnalyzeTopologyCall(o, TopologySample, 1..Len(heap[o].rows))

PipeAnalyzeMultiplex ==
    \E o \in DOMAIN heap :
        AnalyzeMultiplexCall(o, MultiplexSample, 1..Len(heap[o].rows))

\* SpecFilters: any sequence of calls of the three filtering stages
NextFilters ==
    \/ PipeDownloadModel
    \/ PipeFilterLanguageEmpty
    \/ PipeFilterLanguage
    \/ PipeFilterNoise
    \/ PipeRemoveBots

SpecFilters == InitPipeline /\ [][NextFilters]_vars

NextPipeline ==
    \/ NextFilters
    \/ PipeAnalyzeSemantic
    \/ PipeAnalyzeTopology
    \/ PipeAnalyzeMultiplex

SpecPipeline == InitPipeline /\ [][NextPipeline]_vars

(***************************************************************************)
(* Claims about extract_interactions.  The statements below describe the   *)
(* results by positions of the argument, without scanning.                 *)
(***************************************************************************)

\* 'RT @' and a word character stand at position i
RtPatternAt(t, i) ==
    /\ i + 4 <= Len(t)
    /\ SubSeq(t, i, i + 3) = RtLiteral
    /\ IsWord(t[i + 4])

\* position i starts a left-to-right non-overlapping match: the pattern
\* stands there and i does not lie in the handle of an earlier match
RECURSIVE IsRtStart(_, _)
IsRtStart(t, i) ==
    /\ RtPatternAt(t, i)
    /\ ~ \E j \in 1..(i - 1) :
            /\ RtPatternAt(t, j)
            /\ \A k \in (j + 4)..i : IsWord(t[k])
            /\ IsRtStart(t, j)

\* the last position of the maximal run of word characters starting at s
RunEnd(t, s) ==
    CHOOSE e \in s..Len(t) :
        /\ \A k \in s..e : IsWord(t[k])
        /\ (e = Len(t) \/ ~IsWord(t[e + 1]))

RtStarts(t) == {i \in 1..Len(t) : IsRtStart(t, i)}

\* position k belongs to an 'RT @handle' match
Consumed(t, k) == \E i \in RtStarts(t) : i <= k /\ k <= RunEnd(t, i + 4)

\* the k-th smallest element of a set of positions
Kth(S, k) == CHOOSE x \in S : Cardinality({y \in S : y < x}) = k - 1

InOrder(S) == [k \in 1..Cardinality(S) |-> Kth(S, k)]

\* the handles of the RT matches, in order of appearance
ClaimedRts(t) ==
    LET s == InOrder(RtStarts(t))
    IN  [k \in 1..Len(s) |-> SubSeq(t, s[k] + 4, RunEnd(t, s[k] + 4))]

\* the text with every 'RT @handle' substring deleted
Remainder(t) ==
    LET keep == InOrder({k \in 1..Len(t) : ~Consumed(t, k)})
    IN  [k \in 1..Len(keep) |-> t[keep[k]]]

\* the handles after each '@' followed by a word character, in order
ClaimedMentions(t) ==
    LET u == Remainder(t)
        s == InOrder({i \in 1..(Len(u) - 1) :
                         u[i] = AtSign /\ IsWord(u[i + 1])})
    IN  [k \in 1..Len(s) |-> SubSeq(u, s[k] + 1, RunEnd(u, s[k] + 1))]

ToSet(s) == {s[k] : k \in 1..Len(s)}

Extracted == last.op = "extract_interactions"

\* C1: for every string, the retweet targets are exactly the handles of the
\* non-overlapping left-to-right 'RT @handle' matches, in order with
\* duplicates, and the mention targets are exactly the '@handle' captures of
\* the text with those matches deleted; the spec's example gives
\* [alice] and [bob, alice].
C1_ExtractMatchesRules ==
    (Extracted /\ text.isStr) =>
        /\ rts = ClaimedRts(text.chars)
        /\ mentions = ClaimedMentions(text.chars)
        /\ (text.chars = ExampleText =>
                /\ rts = << Str(<<"a", "l", "i", "c", "e">>) >>
                /\ mentions = << Str(<<"b", "o", "b">>), Str(<<"a", "l", "i", "c", "e">>) >>)

\* C1 witness: a text with two RT matches and a later mention was extracted
C1_Witness ==
    /\ Extracted
    /\ text.isStr
    /\ Len(rts) = 2
    /\ Len(mentions) = 1

\* C5 as stated: the retweet targets and the mention targets of one call
\* share no handle.
C5_Original_NoSharedHandle ==
    Extracted => ToSet(rts) \cap ToSet(mentions) = {}

\* the number of '@' characters outside every 'RT @handle' match
FreeAts(t) == {k \in 1..Len(t) : t[k] = AtSign /\ ~Consumed(t, k)}

\* C5 amended: the '@' consumed by an 'RT @handle' match never yields a
\* mention target: there are at most as many mention targets as '@'
\* characters outside the RT matches, so a retweet target is also a mention
\* target only when the text has a further '@' outside every RT match.
C5_ConsumedAtYieldsNoMention ==
    (Extracted /\ text.isStr) =>
        /\ Len(mentions) <= Cardinality(FreeAts(text.chars))
        /\ (ToSet(rts) \cap ToSet(mentions) # {} => FreeAts(text.chars) # {})

\* C5 witness: a handle was returned both as retweet and as mention target
C5_Witness ==
    /\ Extracted
    /\ text.isStr
    /\ ToSet(rts) \cap ToSet(mentions) # {}


(***************************************************************************)
(* Claims about remove_bots.                                               *)
(***************************************************************************)
BotsCalled == last.op = "remove_bots"

\* the number of rows of the argument written by the author of row k
PostCount(rows, k) ==
    Cardinality({j \in 1..Len(rows) : rows[j].user_id = rows[k].user_id})

HasAuthor(rows, k) == rows[k].user_id # NaN

\* row k's author posted strictly more than the threshold num/den
AboveThreshold(rows, k, th) ==
    HasAuthor(rows, k) /\ PostCount(rows, k) * th.den > th.num

\* C2 as stated: for every corpus and percentile the call returns the human
\* subset, a row is in the bot subset exactly when its author's post count is
\* strictly above the quantile threshold, and the two subsets partition the
\* input rows.
C2_Original_BotSplit ==
    BotsCalled =>
        /\ ~last.raised
        /\ LET rows == last.before.rows
               bots == ToSet(last.removed)
               human == ToSet(heap[last.ret].rows)
           IN  /\ \A k \in 1..Len(rows) :
                      rows[k] \in bots <=> AboveThreshold(rows, k, last.threshold)
               /\ Len(last.removed) + Len(heap[last.ret].rows) = Len(rows)
               /\ bots \cap human = {}
               /\ bots \cup human = ToSet(rows)
               /\ \A k \in 1..Len(rows) : rows[k] \in human <=> rows[k] \notin bots

\* the least post count among the authors of the argument
IsMinCount(rows, k) ==
    \A j \in 1..Len(rows) : PostCount(rows, k) <= PostCount(rows, j)

Authored(rows) == Len(rows) > 0 /\ \A k \in 1..Len(rows) : HasAuthor(rows, k)

\* C10: for a non-empty corpus whose rows all have an author and a percentile
\* in [0,1], no author with the least post count is flagged, so the returned
\* corpus is non-empty; when all authors have the same count nobody is
\* flagged and every input row is returned.
C10_MinAuthorKept ==
    (BotsCalled /\ Authored(last.before.rows)) =>
        /\ ~last.raised
        /\ LET rows == last.before.rows
               human == heap[last.ret].rows
           IN  /\ \A k \in 1..Len(rows) :
                      IsMinCount(rows, k) =>
                          rows[k] \in ToSet(human) /\ rows[k] \notin ToSet(last.removed)
               /\ Len(human) > 0
               /\ ((\A k \in 1..Len(rows) : IsMinCount(rows, k)) =>
                       human = rows /\ last.removed = <<>>)

\* C10 witness: some author was flagged while the least active one was kept
C10_Witness ==
    /\ BotsCalled
    /\ Authored(last.before.rows)
    /\ ~last.raised
    /\ Len(last.removed) > 0
    /\ Len(heap[last.ret].rows) > 0


(***************************************************************************)
(* Claims about filter_noise.                                              *)
(***************************************************************************)

\* the number of whitespace-separated words: the positions where a word
\* begins
WordsIn(t) ==
    Cardinality({i \in 1..Len(t) :
                    /\ ~IsSpace(t[i])
                    /\ (i = 1 \/ IsSpace(t[i - 1]))})

NoiseTwice == Len(heap) = 3 /\ last.op = "filter_noise"

\* C3: filter_noise applied to its own output with the same minimum returns
\* an identical corpus (same rows, order and columns), the first output
\* having no two rows with the same body and only rows of at least m words.
C3_FilterNoiseIdempotent ==
    NoiseTwice =>
        /\ heap[3] = heap[2]
        /\ \A j, k \in 1..Len(heap[2].rows) :
               heap[2].rows[j].tweet = heap[2].rows[k].tweet => j = k
        /\ \A k \in 1..Len(heap[2].rows) :
               WordsIn(heap[2].rows[k].tweet) >= last.min_words

\* C3 witness: the first pass removed rows and kept others, then ran again
C3_Witness ==
    /\ NoiseTwice
    /\ Len(heap[2].rows) > 0
    /\ Len(heap[2].rows) < Len(heap[1].rows)
    /\ last.min_words > 0


(***************************************************************************)
(* Claims about analyze_semantic_feasibility.                              *)
(***************************************************************************)
SemanticCalled == last.op = "analyze_semantic_feasibility"

RECURSIVE TotalWords(_, _)
TotalWords(rows, k) ==
    IF k > Len(rows) THEN 0 ELSE WordsIn(rows[k].tweet) + TotalWords(rows, k + 1)

\* the mean word count is below 8
MeanBelowEight(rows) == TotalWords(rows, 1) < 8 * Len(rows)

\* distinct bodies / posts is below 0.3
UniqueBelowThreeTenths(rows) ==
    10 * Cardinality({rows[k].tweet : k \in 1..Len(rows)}) < 3 * Len(rows)

\* C6 as stated: on a non-empty corpus 'too short' is flagged exactly when
\* the mean word count is below 8, 'critical duplication' exactly when the
\* uniqueness ratio is below 0.3, and 'adequate' only when neither warning
\* fires.
C6_Original_AdequateOnlyOtherwise ==
    (SemanticCalled /\ Len(last.before.rows) > 0) =>
        /\ ~last.raised
        /\ last.report.short <=> MeanBelowEight(last.before.rows)
        /\ last.report.critical <=> UniqueBelowThreeTenths(last.before.rows)
        /\ last.report.adequate <=> (~last.report.short /\ ~last.report.critical)

(***************************************************************************)
(* Claims about analyze_topology_feasibility.                              *)
(***************************************************************************)
TopologyCalled == last.op = "analyze_topology_feasibility"

\* the number of 'RT @handle' matches in the sampled posts
RECURSIVE SampleEdges(_, _)
SampleEdges(rows, k) ==
    IF k > Len(rows) THEN 0
    ELSE Cardinality(RtStarts(rows[k].tweet)) + SampleEdges(rows, k + 1)

\* the authors that retweet and the handles they retweet, over the sample
SampleNodes(rows) ==
    UNION { {rows[k].user_screen_name} \cup ToSet(ClaimedRts(rows[k].tweet)) :
              k \in {j \in 1..Len(rows) : RtStarts(rows[j].tweet) # {}} }

\* C9: when the sample yields at least one retweet edge there is a
\* component, the components split the nodes, the giant-component fraction
\* giant/nodes is in (0,1], fragmentation is reported exactly when it is
\* below 0.05 and viability otherwise; with zero edges an extraction
\* failure is reported and neither of the two.
C9_TopologyReport ==
    TopologyCalled =>
        LET r == last.report
            n == r.numbers
        IN  /\ r.edges = SampleEdges(last.sample, 1)
            /\ SampleEdges(last.sample, 1) > 0 =>
                   /\ n.components > 0
                   /\ n.nodes = Cardinality(SampleNodes(last.sample))
                   /\ n.giant + (n.components - 1) <= n.nodes
                   /\ n.giant * n.components >= n.nodes
                   /\ 0 < n.giant /\ n.giant <= n.nodes
                   /\ r.outcome = "fragmented" <=> 20 * n.giant < n.nodes
                   /\ r.outcome = "viable" <=> 20 * n.giant >= n.nodes
            /\ SampleEdges(last.sample, 1) = 0 => r.outcome = "no_edges"

\* C9 witness: a sample with edges whose largest component holds exactly one
\* twentieth of the nodes was reported viable
C9_Witness ==
    /\ TopologyCalled
    /\ last.report.edges > 0
    /\ 20 * last.report.numbers.giant = last.report.numbers.nodes
    /\ last.report.outcome = "viable"

(***************************************************************************)
(* Claims about the filtering stages and the corpora passed to them.       *)
(***************************************************************************)
StageCalled == last.op \in {"filter_language", "filter_noise", "remove_bots"}

\* the rows of the argument that are not in the returned corpus
RemovedByStage ==
    IF last.raised \/ last.ret = None THEN {}
    ELSE ToSet(last.before.rows) \
            {r \in ToSet(last.before.rows) :
                \E k \in 1..Len(heap[last.ret].rows) :
                    heap[last.ret].rows[k].idx = r.idx}

\* the columns of a row as a file holds them
AsWritten(r) == [c \in (DOMAIN r) \ {"idx"} |-> r[c]]

\* the removed-subset artifact the stage writes for a prefix
ArtifactOf(op, prefix) ==
    IF op = "remove_bots" THEN <<prefix, "_bots_removed.csv">>
    ELSE <<prefix, "_foreign_removed.csv">>

\* C4 as stated: every row a filtering stage removed from its input is in a
\* persisted removed-subset artifact written by that stage.
C4_Original_EveryRemovalPersisted ==
    StageCalled =>
        \A r \in RemovedByStage :
            /\ last.saved
            /\ ArtifactOf(last.op, last.save_prefix) \in DOMAIN files
            /\ AsWritten(r) \in ToSet(files[ArtifactOf(last.op, last.save_prefix)])

\* C4 amended: every row that filter_language or remove_bots, called with a
\* non-empty save prefix, removed from its input is in the artifact that
\* call wrote (<prefix>_foreign_removed, <prefix>_bots_removed), without the
\* index column.
C4_RemovalPersistedUnderPrefix ==
    (/\ last.op \in {"filter_language", "remove_bots"}
     /\ last.save_prefix # "") =>
        \A r \in RemovedByStage :
            /\ ArtifactOf(last.op, last.save_prefix) \in DOMAIN files
            /\ AsWritten(r) \in ToSet(files[ArtifactOf(last.op, last.save_prefix)])

\* C4 witness: remove_bots persisted the rows it removed, in a run in which
\* filter_language had persisted its rejected rows too
C4_Witness ==
    /\ last.op = "remove_bots"
    /\ last.save_prefix # ""
    /\ RemovedByStage # {}
    /\ <<last.save_prefix, "_foreign_removed.csv">> \in DOMAIN files

\* C7 as stated: no call of an analyzer or of a filtering stage changes a
\* corpus object that exists: rows, columns and values stay as they were.
C7_Original_NoInPlaceMutation ==
    [][\A o \in DOMAIN heap : heap'[o] = heap[o]]_vars

\* a step that is a call of filter_language on a non-empty corpus
LanguageCallStep ==
    /\ last'.op = "filter_language"
    /\ Len(last'.before.rows) > 0

\* C8 as stated: the model is loaded at most once; a call that receives a
\* non-empty corpus while no model is held loads it, after a download
\* exactly when the model file does not exist; a call made while the model
\* is held neither loads nor downloads.
C8_Original_LoadedOnFirstCall ==
    [][/\ loads' <= 1
       /\ LanguageCallStep =>
              IF lang_model = "None"
              THEN /\ lang_model' = "model"
                   /\ loads' = loads + 1
                   /\ (downloads' = downloads + 1) <=> (model_file = "absent")
                   /\ (downloads' = downloads) <=> (model_file # "absent")
              ELSE /\ loads' = loads
                   /\ downloads' = downloads]_vars

\* what one step may do to the language model under the amended C8
ModelLoadStep ==
    /\ lang_model = "model" =>
           /\ lang_model' = "model"
           /\ loads' = loads
    /\ ~LanguageCallStep =>
           /\ lang_model' = lang_model
           /\ loads' = loads
    /\ (LanguageCallStep /\ lang_model = "model") =>
           /\ downloads' = downloads
           /\ model_file' = model_file
           /\ ~last'.raised
    /\ (LanguageCallStep /\ lang_model = "None") =>
           /\ (downloads' = downloads + 1) <=> (model_file = "absent")
           /\ (downloads' = downloads) <=> (model_file # "absent")
           /\ loads' \in {loads, loads + 1}
           /\ model_file # "absent" =>
                  (loads' = loads + 1 /\ model_file' = model_file)
           /\ loads' = loads + 1 => model_file' # "absent"
           /\ loads' = loads => (last'.raised /\ downloads' = downloads + 1)
           /\ (lang_model' = "model") <=> ~last'.raised
           /\ (lang_model' = "model") => loads' = loads + 1
           /\ last'.raised =>
                  /\ lang_model' = "None"
                  /\ last'.ret = None
                  /\ heap' = heap
                  /\ files' = files

\* C8 amended: load_model returns a model at most once per process, and a
\* held model is never loaded again, replaced or dropped.  A call of
\* filter_language on a non-empty corpus made while a model is held neither
\* downloads nor loads.  Made while no model is held, it calls urlretrieve
\* exactly when the model file does not exist, and calls load_model once
\* unless urlretrieve raised; the model is held afterwards exactly when
\* load_model returned.  When either raises, the call raises, returns no
\* corpus, writes no artifact and leaves no model held, so that the next
\* such call tries again: it downloads again exactly when the file is still
\* missing and loads again.
C8_ModelHeldOnceLoaded == [][ModelLoadStep]_vars

\* C8 witness: after a call whose download failed and a call that
\* downloaded and loaded the model, a later call on a non-empty corpus
\* reused the held model
C8_Witness ==
    /\ last.op = "filter_language"
    /\ Len(last.before.rows) > 0
    /\ ~last.loaded
    /\ ~last.raised
    /\ lang_model = "model"
    /\ loads = 1
    /\ downloads = 2

=============================================================================
